---------------------------- MODULE Spec2Model ----------------------------
(***************************************************************************)
(* A model of pyasflip.py: the ASFLIP demo's driver loop (key events,      *)
(* pause, reset, scheme cycling, frame advance) and the phases of the MPM  *)
(* kernel Substep (clear, P2G scatter, grid update, G2P advection).        *)
(*                                                                         *)
(* Fixed-point conventions (the source computes in floating point):       *)
(*   - advection coefficients are in hundredths (0.99 is 99, 1.0 is 100);  *)
(*   - lengths are in L = dx / 20, so the unit square is 20 * n_grid wide; *)
(*   - the time unit is one substep dt;                                    *)
(*   - velocities are in L / (16 dt); the collider's speed                 *)
(*     |init_capsule_vel_y| is 16, so it moves one L per substep;          *)
(*   - masses are in p_mass / 3200^2 (3200 = 8 * 20^2 is the common        *)
(*     denominator of the quadratic B-spline weights at this resolution).  *)
(* The grid resolution and the number of substeps per frame are scaled     *)
(* down (n_grid, FrameSubsteps); capsule_move_frame is derived from them   *)
(* by the source's formula.  Rounding of floating point is not modelled.   *)
(***************************************************************************)
EXTENDS Integers, Sequences, FiniteSets, TLC

VARIABLES
  \* ---- driver (module level and main loop) ----
  pc,                            \* position in the main loop
  event,                         \* gui.event.key of the event being handled
  s,                             \* substeps run by the for loop of this frame
  frame,
  paused,
  current_advection,
  flip_velocity_adjustment,
  flip_position_adjustment_min,
  flip_position_adjustment_max,
  apic_affine_stretching,
  apic_affine_rotation,
  particle_collision,
  adv_params,
  gravity,
  capsule_translation,
  capsule_trans_vel,
  capsule_rotation,              \* number of increments of capsule_angular_vel * dt
  particles,                     \* driver-level view of the fields x, v, C, F, Jp
  \* ---- kernel phases (inside one Substep) ----
  kpc,                           \* position inside the kernel
  x, v, C, stress,               \* per-particle fields and the constitutive result
  logJ,                          \* per particle: ti.log(max(1e-15, F[p].determinant()))
  grid_m, grid_v, grid_v0,
  scat,                          \* per particle: neighbourhood nodes already scattered
  g2p                            \* per-particle locals of the G2P loop

driverVars == <<pc, event, s, frame, paused, current_advection,
                flip_velocity_adjustment, flip_position_adjustment_min,
                flip_position_adjustment_max, apic_affine_stretching,
                apic_affine_rotation, particle_collision, adv_params,
                particles>>
colliderVars == <<gravity, capsule_translation, capsule_trans_vel, capsule_rotation>>
kernelVars == <<kpc, x, v, C, stress, logJ, grid_m, grid_v, grid_v0, scat, g2p>>
vars == <<driverVars, colliderVars, kernelVars>>

(***************************************************************************)
(* Bounds of the model.                                                    *)
(***************************************************************************)
\* grid resolution (source: 96 * quality)
n_grid == 8
\* substeps per frame (source: int(frame_dt // dt) = 39)
FrameSubsteps == 2
\* number of particles (source: n_particles = 23328)
NParticles == 2

(***************************************************************************)
(* AdvectionType and the advection parameters.                             *)
(***************************************************************************)
PIC == 0
FLIP == 1
NFLIP == 2
SFLIP == 3
APIC == 4
AFLIP == 5
ASFLIP == 6
COUNT == 7

\* The members of AdvectionType that name a scheme.
Schemes == {PIC, FLIP, NFLIP, SFLIP, APIC, AFLIP, ASFLIP}

\* The six module-level coefficients, in the order adv_params packs them.
Globals == <<flip_velocity_adjustment, flip_position_adjustment_min,
             flip_position_adjustment_max, apic_affine_stretching,
             apic_affine_rotation, particle_collision>>

\* The values the six globals are given at module level, before any call.
ModuleDefaults == <<0, 0, 0, 100, 100, 0>>

\* SetupAdvection whose FLIP branch does not assign particle_collision.
SetupAdvectionStale(advection_type, old) ==
  [ret |-> advection_type,
   coef |-> IF advection_type = PIC THEN <<0, 0, 0, 0, 0, 0>>
            ELSE IF advection_type = FLIP THEN <<99, 0, 0, 0, 0, old[6]>>
            ELSE IF advection_type = NFLIP THEN <<97, 100, 100, 0, 0, 0>>
            ELSE IF advection_type = SFLIP THEN <<99, 0, 100, 0, 0, 100>>
            ELSE IF advection_type = APIC THEN <<0, 0, 0, 100, 100, 0>>
            ELSE IF advection_type = AFLIP THEN <<99, 0, 0, 100, 100, 0>>
            ELSE IF advection_type = ASFLIP THEN <<99, 0, 100, 100, 100, 100>>
            ELSE old]

\* SetupAdvection(advection_type): the coefficients it leaves in the six
\* globals (old: their values before the call; kept when no branch matches)
\* and the value it returns.
SetupAdvection(advection_type, old) ==
  [ret |-> advection_type,
   coef |-> IF advection_type = PIC THEN <<0, 0, 0, 0, 0, 0>>
            ELSE IF advection_type = FLIP THEN <<99, 0, 0, 0, 0, 0>>
            ELSE IF advection_type = NFLIP THEN <<97, 100, 100, 0, 0, 0>>
            ELSE IF advection_type = SFLIP THEN <<99, 0, 100, 0, 0, 100>>
            ELSE IF advection_type = APIC THEN <<0, 0, 0, 100, 100, 0>>
            ELSE IF advection_type = AFLIP THEN <<99, 0, 0, 100, 100, 0>>
            ELSE IF advection_type = ASFLIP THEN <<99, 0, 100, 100, 100, 100>>
            ELSE old]

\* The assignment of SetupAdvection's result to the six globals.
SetGlobals(coef) ==
  /\ flip_velocity_adjustment' = coef[1]
  /\ flip_position_adjustment_min' = coef[2]
  /\ flip_position_adjustment_max' = coef[3]
  /\ apic_affine_stretching' = coef[4]
  /\ apic_affine_rotation' = coef[5]
  /\ particle_collision' = coef[6]

\* adv_params[None] = [flip_velocity_adjustment, ..., particle_collision],
\* read after the globals were assigned.
PackAdvParams ==
  adv_params' = <<flip_velocity_adjustment', flip_position_adjustment_min',
                  flip_position_adjustment_max', apic_affine_stretching',
                  apic_affine_rotation', particle_collision'>>

\* LEFT that wraps to COUNT instead of COUNT - 1.
LeftSchemeToCount(cur) == IF cur = 0 THEN COUNT ELSE cur - 1

\* LEFT: the previous scheme, wrapping from 0 to COUNT - 1.
LeftScheme(cur) == IF cur = 0 THEN COUNT - 1 ELSE cur - 1

\* RIGHT: the next scheme modulo COUNT.
RightScheme(cur) == (cur + 1) % COUNT

(***************************************************************************)
(* The collider's configuration.                                           *)
(***************************************************************************)
dx == 20
init_capsule_center_x == 10 * n_grid
init_capsule_center_y == 12 * n_grid
init_capsule_vel_y == -16
capsule_radius == 3 * n_grid
capsule_half_length == n_grid

\* vec * dt for a velocity vec: a displacement in L.
DtTimes(vec) == <<vec[1] \div 16, vec[2] \div 16>>

\* int(a / b) for b > 0: Python's int() truncates toward zero.
TruncDiv(a, b) == IF a >= 0 THEN a \div b ELSE -((-a) \div b)

\* int((0.3 - init_capsule_center_y) / init_capsule_vel_y / frame_dt), with
\* 0.3 = 6 * n_grid L and frame_dt = FrameSubsteps dt.
capsule_move_frame ==
  TruncDiv(TruncDiv((init_capsule_center_y - 6 * n_grid) * 16, -init_capsule_vel_y),
           FrameSubsteps)

\* The model stops starting frames here (the source's loop is unbounded).
MaxFrame == capsule_move_frame + 2

(***************************************************************************)
(* Reset and Substep as the driver sees them.                              *)
(***************************************************************************)
\* Reset(): every particle field re-initialised, gravity and collider restored.
Reset ==
  /\ particles' = "reset"
  /\ gravity' = <<0, -981>>
  /\ capsule_translation' = <<init_capsule_center_x, init_capsule_center_y>>
  /\ capsule_trans_vel' = <<0, init_capsule_vel_y>>
  /\ capsule_rotation' = 0

\* Substep(): the collider's pose advances, the particle fields are rewritten.
Substep ==
  /\ capsule_rotation' = capsule_rotation + 1
  /\ capsule_translation' =
       <<capsule_translation[1] + DtTimes(capsule_trans_vel)[1],
         capsule_translation[2] + DtTimes(capsule_trans_vel)[2]>>
  /\ particles' = "stepped"
  /\ UNCHANGED <<gravity, capsule_trans_vel>>

(***************************************************************************)
(* The main loop.                                                          *)
(***************************************************************************)
Keys == {"r", "escape", "space", "left", "right", "other"}

advVars == <<current_advection, flip_velocity_adjustment,
             flip_position_adjustment_min, flip_position_adjustment_max,
             apic_affine_stretching, apic_affine_rotation, particle_collision,
             adv_params>>

\* A loop that also polls between the substeps of a frame.
AtPollOrMidFrame == pc \in {"poll", "substep"}

\* Where the loop polls for a key press: the top of an iteration.
AtPoll == pc = "poll"

\* gui.get_event(ti.GUI.PRESS): a pending key press, or none.
GetEvent ==
  /\ AtPoll
  /\ \E k \in Keys \cup {"none"} :
       /\ event' = k
       /\ pc' = IF k = "none" THEN "frame" ELSE "handle"
  /\ UNCHANGED <<s, frame, paused, advVars, particles, colliderVars, kernelVars>>

\* An 'r' handler that also restarts the frame counter.
KeyResetRestartsFrame ==
  /\ pc = "handle" /\ event = "r"
  /\ Reset
  /\ frame' = 0
  /\ pc' = "frame"
  /\ UNCHANGED <<event, s, paused, advVars, kernelVars>>

KeyReset ==
  /\ pc = "handle" /\ event = "r"
  /\ Reset
  /\ pc' = "frame"
  /\ UNCHANGED <<event, s, frame, paused, advVars, kernelVars>>

KeyEscape ==
  /\ pc = "handle" /\ event = "escape"
  /\ pc' = "exit"
  /\ UNCHANGED <<event, s, frame, paused, advVars, particles, colliderVars, kernelVars>>

KeySpace ==
  /\ pc = "handle" /\ event = "space"
  /\ paused' = ~paused
  /\ pc' = "frame"
  /\ UNCHANGED <<event, s, frame, advVars, particles, colliderVars, kernelVars>>

\* A LEFT handler that does not repack adv_params.
KeyLeftStale ==
  /\ pc = "handle" /\ event = "left"
  /\ current_advection' = LeftScheme(current_advection)
  /\ SetGlobals(SetupAdvection(current_advection', Globals).coef)
  /\ pc' = "frame"
  /\ UNCHANGED <<event, s, frame, paused, adv_params, particles, colliderVars, kernelVars>>

KeyLeft ==
  /\ pc = "handle" /\ event = "left"
  /\ current_advection' = LeftScheme(current_advection)
  /\ SetGlobals(SetupAdvection(current_advection', Globals).coef)
  /\ PackAdvParams
  /\ pc' = "frame"
  /\ UNCHANGED <<event, s, frame, paused, particles, colliderVars, kernelVars>>

KeyRight ==
  /\ pc = "handle" /\ event = "right"
  /\ current_advection' = RightScheme(current_advection)
  /\ SetGlobals(SetupAdvection(current_advection', Globals).coef)
  /\ PackAdvParams
  /\ pc' = "frame"
  /\ UNCHANGED <<event, s, frame, paused, particles, colliderVars, kernelVars>>

\* Any other key: no branch of the if chain matches.
KeyOther ==
  /\ pc = "handle" /\ event = "other"
  /\ pc' = "frame"
  /\ UNCHANGED <<event, s, frame, paused, advVars, particles, colliderVars, kernelVars>>

\* if not paused: enter the for loop; else go on to drawing.
FrameCheck ==
  /\ pc = "frame"
  /\ paused \/ frame < MaxFrame
  /\ IF paused THEN pc' = "render" /\ s' = s
               ELSE pc' = "substep" /\ s' = 0
  /\ UNCHANGED <<event, frame, paused, advVars, particles, colliderVars, kernelVars>>

\* One iteration of for s in range(int(frame_dt // dt)): Substep().
RunSubstep ==
  /\ pc = "substep" /\ s < FrameSubsteps
  /\ Substep
  /\ s' = s + 1
  /\ UNCHANGED <<pc, event, frame, paused, advVars, kernelVars>>

\* An end of frame that stops the collider one frame early.
EndFrameEarly ==
  /\ pc = "substep" /\ s = FrameSubsteps
  /\ frame' = frame + 1
  /\ capsule_trans_vel' = IF frame' >= capsule_move_frame THEN <<0, 0>>
                          ELSE capsule_trans_vel
  /\ pc' = "render"
  /\ UNCHANGED <<event, s, paused, advVars, particles, gravity,
                 capsule_translation, capsule_rotation, kernelVars>>

\* After the loop: frame += 1, and the collider stops once frame > capsule_move_frame.
EndFrame ==
  /\ pc = "substep" /\ s = FrameSubsteps
  /\ frame' = frame + 1
  /\ capsule_trans_vel' = IF frame' > capsule_move_frame THEN <<0, 0>>
                          ELSE capsule_trans_vel
  /\ pc' = "render"
  /\ UNCHANGED <<event, s, paused, advVars, particles, gravity,
                 capsule_translation, capsule_rotation, kernelVars>>

\* gui.circles, DrawCapsule, gui.show: reads only.
Render ==
  /\ pc = "render"
  /\ pc' = "poll"
  /\ UNCHANGED <<event, s, frame, paused, advVars, particles, colliderVars, kernelVars>>

\* The kernel variables are not tracked at driver level.
KernelIdle ==
  /\ kpc = "idle"
  /\ x = <<>> /\ v = <<>> /\ C = <<>> /\ stress = <<>> /\ logJ = <<>>
  /\ grid_m = <<>> /\ grid_v = <<>> /\ grid_v0 = <<>>
  /\ scat = <<>> /\ g2p = <<>>

\* The state when the main loop is entered: SetupAdvection(ASFLIP) at module
\* level, Reset(), adv_params packed, frame = 0.
Init ==
  /\ pc = "poll"
  /\ event = "none"
  /\ s = 0
  /\ frame = 0
  /\ paused = FALSE
  /\ current_advection = SetupAdvection(ASFLIP, ModuleDefaults).ret
  /\ flip_velocity_adjustment = SetupAdvection(ASFLIP, ModuleDefaults).coef[1]
  /\ flip_position_adjustment_min = SetupAdvection(ASFLIP, ModuleDefaults).coef[2]
  /\ flip_position_adjustment_max = SetupAdvection(ASFLIP, ModuleDefaults).coef[3]
  /\ apic_affine_stretching = SetupAdvection(ASFLIP, ModuleDefaults).coef[4]
  /\ apic_affine_rotation = SetupAdvection(ASFLIP, ModuleDefaults).coef[5]
  /\ particle_collision = SetupAdvection(ASFLIP, ModuleDefaults).coef[6]
  /\ adv_params = Globals
  /\ particles = "reset"
  /\ gravity = <<0, -981>>
  /\ capsule_translation = <<init_capsule_center_x, init_capsule_center_y>>
  /\ capsule_trans_vel = <<0, init_capsule_vel_y>>
  /\ capsule_rotation = 0
  /\ KernelIdle

Next ==
  \/ GetEvent
  \/ KeyReset
  \/ KeyEscape
  \/ KeySpace
  \/ KeyLeft
  \/ KeyRight
  \/ KeyOther
  \/ FrameCheck
  \/ RunSubstep
  \/ EndFrame
  \/ Render

Spec == Init /\ [][Next]_vars

(***************************************************************************)
(* The kernel Substep, phase by phase.  Small vector and matrix helpers    *)
(* stand for ti.Vector and ti.Matrix arithmetic.                           *)
(***************************************************************************)
VecAdd(a, b) == <<a[1] + b[1], a[2] + b[2]>>
VecSub(a, b) == <<a[1] - b[1], a[2] - b[2]>>
VecScale(k, a) == <<k * a[1], k * a[2]>>
Dot(a, b) == a[1] * b[1] + a[2] * b[2]
MatVec(M, d) == <<M[1][1] * d[1] + M[1][2] * d[2], M[2][1] * d[1] + M[2][2] * d[2]>>
MatAdd(A, B) == <<VecAdd(A[1], B[1]), VecAdd(A[2], B[2])>>
MatScale(k, A) == <<VecScale(k, A[1]), VecScale(k, A[2])>>
Transpose(A) == <<<<A[1][1], A[2][1]>>, <<A[1][2], A[2][2]>>>>

Particles == 1 .. NParticles
Nodes == (0 .. n_grid - 1) \X (0 .. n_grid - 1)

\* The nodes of the zero field written by the clearing loop.
ZeroScalar == [n \in Nodes |-> 0]
ZeroVector == [n \in Nodes |-> <<0, 0>>]

\* base = (x[p] * inv_dx - 0.5).cast(int), one coordinate: the cast truncates.
Base(xc) == TruncDiv(2 * xc - dx, 2 * dx)

\* fx = x[p] * inv_dx - base.cast(float), one coordinate, as a multiple of 1/dx.
Fx(xc) == xc - dx * Base(xc)

\* w = [0.5 * (1.5 - fx) ** 2, 0.75 - (fx - 1) ** 2, 0.5 * (fx - 0.5) ** 2],
\* one coordinate, index i in 0..2, in units of 1 / (8 dx^2).
W(i, f) == IF i = 0 THEN (3 * dx - 2 * f) * (3 * dx - 2 * f)
           ELSE IF i = 1 THEN 6 * dx * dx - 8 * (f - dx) * (f - dx)
           ELSE (2 * f - dx) * (2 * f - dx)

\* The k-th iteration of ti.static(ti.ndrange(3, 3)): offset = [i, j].
Offset(k) == <<k \div 3, k % 3>>

\* The node base + offset a particle at position xp writes in iteration k.
TargetNode(xp, k) == <<Base(xp[1]) + Offset(k)[1], Base(xp[2]) + Offset(k)[2]>>

\* weight = w[i][0] * w[j][1]
Weight(xp, k) == W(Offset(k)[1], Fx(xp[1])) * W(Offset(k)[2], Fx(xp[2]))

\* dpos = (offset.cast(float) - fx) * dx
DPos(xp, k) == <<dx * Offset(k)[1] - Fx(xp[1]), dx * Offset(k)[2] - Fx(xp[2])>>

\* affine_without_stress = p_mass * (C[p] * rc0 + C[p].transpose() * rc1), with
\* rc0 = (param_apic_str + param_apic_rot) * 0.5 and rc1 their half difference.
AffineWithoutStress(Cp, params) ==
  LET rc0 == (params[4] + params[5]) \div 2
      rc1 == (params[4] - params[5]) \div 2
      M == MatAdd(MatScale(rc0, Cp), MatScale(rc1, Transpose(Cp)))
  IN <<<<M[1][1] \div 100, M[1][2] \div 100>>, <<M[2][1] \div 100, M[2][2] \div 100>>>>

\* field[node] = val: the addition lost.
Overwrite(field, node, val) == [field EXCEPT ![node] = val]

\* field[node] += val: Taichi makes += on a field in a parallel loop atomic.
AtomicAdd(field, node, val) == [field EXCEPT ![node] = @ + val]
AtomicAddVec(field, node, val) == [field EXCEPT ![node] = VecAdd(@, val)]

\* Kernel-level specifications fix the driver at a point inside a frame, with
\* the scheme sch selected.
DriverInFrame(sch) ==
  /\ pc = "substep"
  /\ event = "none"
  /\ s = 0
  /\ frame = 0
  /\ paused = FALSE
  /\ current_advection = sch
  /\ flip_velocity_adjustment = SetupAdvection(sch, ModuleDefaults).coef[1]
  /\ flip_position_adjustment_min = SetupAdvection(sch, ModuleDefaults).coef[2]
  /\ flip_position_adjustment_max = SetupAdvection(sch, ModuleDefaults).coef[3]
  /\ apic_affine_stretching = SetupAdvection(sch, ModuleDefaults).coef[4]
  /\ apic_affine_rotation = SetupAdvection(sch, ModuleDefaults).coef[5]
  /\ particle_collision = SetupAdvection(sch, ModuleDefaults).coef[6]
  /\ adv_params = SetupAdvection(sch, ModuleDefaults).coef
  /\ particles = "stepped"

(***************************************************************************)
(* Clear and P2G.  The elastoplastic update of F[p] and Jp[p] (SVD,        *)
(* Drucker-Prager, Neo-Hookean) is not computed: its result, the scaled    *)
(* stress (-dt * p_vol * 4 * inv_dx * inv_dx) * stress, is the input       *)
(* stress[p].                                                              *)
(***************************************************************************)
\* Particle positions whose 3x3 neighbourhoods overlap, inside the margin.
P2GPositions == {<<3 * dx + 10, 3 * dx + 10>>, <<3 * dx + 15, 3 * dx + 4>>,
                 <<4 * dx + 9, 3 * dx + 10>>}

\* What the previous substep left in the grid.
LeftoverM == [n \in Nodes |-> IF n[1] = n[2] THEN 7 ELSE 0]
LeftoverV == [n \in Nodes |-> IF n[1] = n[2] THEN <<1, -2>> ELSE <<0, 0>>]

InitP2G ==
  /\ \E sch \in {FLIP, ASFLIP} : DriverInFrame(sch)
  /\ gravity = <<0, -981>>
  /\ capsule_translation = <<init_capsule_center_x, init_capsule_center_y>>
  /\ capsule_trans_vel = <<0, init_capsule_vel_y>>
  /\ capsule_rotation = 0
  /\ kpc = "begin"
  /\ x \in [Particles -> P2GPositions]
  /\ v = [p \in Particles |-> <<p, 1 - p>>]
  /\ C = [p \in Particles |-> <<<<0, p>>, <<-1, 0>>>>]
  /\ stress = [p \in Particles |-> <<<<1, 0>>, <<0, -p>>>>]
  /\ logJ = [p \in Particles |-> 0]
  /\ grid_m = LeftoverM
  /\ grid_v = LeftoverV
  /\ grid_v0 = LeftoverV
  /\ scat = [p \in Particles |-> 0]
  /\ g2p = <<>>

\* capsule_rotation[None][0] += capsule_angular_vel * dt
\* capsule_translation[None] += capsule_trans_vel[None] * dt
AdvanceCollider ==
  /\ kpc = "begin"
  /\ capsule_rotation' = capsule_rotation + 1
  /\ capsule_translation' = VecAdd(capsule_translation, DtTimes(capsule_trans_vel))
  /\ kpc' = "clear"
  /\ UNCHANGED <<driverVars, gravity, capsule_trans_vel,
                 x, v, C, stress, logJ, grid_m, grid_v, grid_v0, scat, g2p>>

\* A clearing loop that leaves grid_m as it was.
ClearGridKeepsMass ==
  /\ kpc = "clear"
  /\ grid_v' = ZeroVector
  /\ grid_v0' = ZeroVector
  /\ kpc' = "p2g"
  /\ UNCHANGED <<driverVars, colliderVars, x, v, C, stress, logJ, grid_m, scat, g2p>>

\* for i, j in grid_m: grid_v[i, j] = [0, 0]; grid_v0[i, j] = [0, 0]; grid_m[i, j] = 0
ClearGrid ==
  /\ kpc = "clear"
  /\ grid_v' = ZeroVector
  /\ grid_v0' = ZeroVector
  /\ grid_m' = ZeroScalar
  /\ kpc' = "p2g"
  /\ UNCHANGED <<driverVars, colliderVars, x, v, C, stress, logJ, scat, g2p>>

\* weight * (p_mass * v[p] + affine @ dpos), iteration k of particle p.
MomentumTerm(p, k) ==
  LET affine == MatAdd(stress[p], AffineWithoutStress(C[p], adv_params))
  IN VecScale(Weight(x[p], k), VecAdd(v[p], MatVec(affine, DPos(x[p], k))))

\* weight * (p_mass * v[p] + affine_without_stress @ dpos)
MomentumTerm0(p, k) ==
  VecScale(Weight(x[p], k),
           VecAdd(v[p], MatVec(AffineWithoutStress(C[p], adv_params), DPos(x[p], k))))

\* One iteration of the 3x3 loop of particle p's thread: its three +=.
Scatter(p) ==
  /\ kpc = "p2g"
  /\ scat[p] < 9
  /\ LET k == scat[p]
         node == TargetNode(x[p], k)
     IN /\ grid_v' = AtomicAddVec(grid_v, node, MomentumTerm(p, k))
        /\ grid_v0' = AtomicAddVec(grid_v0, node, MomentumTerm0(p, k))
        /\ grid_m' = AtomicAdd(grid_m, node, Weight(x[p], k))
  /\ scat' = [scat EXCEPT ![p] = @ + 1]
  /\ UNCHANGED <<driverVars, colliderVars, kpc, x, v, C, stress, logJ, g2p>>

\* The threads of "for p in x" run in any interleaving.
P2G == \E p \in Particles : Scatter(p)

\* The implicit barrier after the particle loop.
P2GBarrier ==
  /\ kpc = "p2g"
  /\ \A p \in Particles : scat[p] = 9
  /\ kpc' = "grid"
  /\ UNCHANGED <<driverVars, colliderVars, x, v, C, stress, logJ,
                 grid_m, grid_v, grid_v0, scat, g2p>>

NextP2G ==
  \/ AdvanceCollider
  \/ ClearGrid
  \/ P2G
  \/ P2GBarrier

SpecP2G == InitP2G /\ [][NextP2G]_vars

(***************************************************************************)
(* The capsule.  Its orientation after k increments of the rotation is     *)
(* taken from twelve directions with rational cosine and sine (fifths):    *)
(* the model's dt turns the capsule by about a twelfth of a turn.  Points  *)
(* in the capsule's frame are therefore in L / 5.                          *)
(***************************************************************************)
capsule_friction == 329
ground_friction == 121
side_friction == 0

\* <<5 cos, 5 sin>> of the capsule's angle after rot increments.
Direction(rot) ==
  LET dirs == << <<5, 0>>, <<4, 3>>, <<3, 4>>, <<0, 5>>, <<-3, 4>>, <<-4, 3>>,
                 <<-5, 0>>, <<-4, -3>>, <<-3, -4>>, <<0, -5>>, <<3, -4>>, <<4, -3>> >>
  IN dirs[(rot % 12) + 1]

\* capsule_rotmat = [[cos, -sin], [sin, cos]], times 5.
CapsuleRotmat(rot) ==
  <<<<Direction(rot)[1], -Direction(rot)[2]>>, <<Direction(rot)[2], Direction(rot)[1]>>>>

\* X = rotation.transpose() @ (x - translation), times 5.
WorldSpaceToMaterialSpace(xw, translation, rotation) ==
  MatVec(Transpose(rotation), VecSub(xw, translation))

\* tmp of SdfCapsule and SdfNormalCapsule: X with X[0] moved by
\* (1 - 2 alpha) half_length, alpha = clamp((X[0] / half_length + 1) / 2, 0, 1).
\* X and the result are in L / 5.
ToSegment(X, half_length) ==
  IF X[1] <= -5 * half_length THEN <<X[1] + 5 * half_length, X[2]>>
  ELSE IF X[1] >= 5 * half_length THEN <<X[1] - 5 * half_length, X[2]>>
  ELSE <<0, X[2]>>

\* SdfCapsule: the sign of tmp.norm() - radius, as tmp.tmp - radius^2.
SdfCapsule(X, radius, half_length) ==
  Dot(ToSegment(X, half_length), ToSegment(X, half_length)) - 25 * radius * radius

\* SdfNormalCapsule before the division by its length: the normal is this
\* vector over max(1e-12, its norm), and normal[0] = 0 along the segment.
SdfNormalCapsule(X, radius, half_length) == ToSegment(X, half_length)

\* capsule_angular_vel * r for a length r: 80 rad/s at the model's dt and L.
AngularVelTimes(r) == TruncDiv(64 * r, n_grid)

\* solid_vel at the world point pos.
SolidVel(pos, ctrans, cvel) ==
  <<cvel[1] - AngularVelTimes(pos[2] - ctrans[2]),
    cvel[2] + AngularVelTimes(pos[1] - ctrans[1])>>

\* n = capsule_rotmat @ SdfNormalCapsule(local pos), unnormalised.
WorldNormal(pos, ctrans, crot) ==
  MatVec(CapsuleRotmat(crot),
         SdfNormalCapsule(WorldSpaceToMaterialSpace(pos, ctrans, CapsuleRotmat(crot)),
                          capsule_radius, capsule_half_length))

\* phi < 0 at the world point pos.
InsideCapsule(pos, ctrans, crot) ==
  SdfCapsule(WorldSpaceToMaterialSpace(pos, ctrans, CapsuleRotmat(crot)),
             capsule_radius, capsule_half_length) < 0

\* dotnv > 0 for a point moving with velocity vel: the sign of n.dot(diff_vel).
MovingIntoCapsule(pos, vel, ctrans, cvel, crot) ==
  Dot(WorldNormal(pos, ctrans, crot), VecSub(SolidVel(pos, ctrans, cvel), vel)) > 0

(***************************************************************************)
(* Grid update: momentum to velocity, gravity, borders, capsule.           *)
(***************************************************************************)
\* dt * gravity[None]: at the model's dt and velocity unit 9.81 m/s^2 * dt is
\* one velocity unit.
DtTimesGravity(g) == <<TruncDiv(g[1], 981), TruncDiv(g[2], 981)>>

\* a * (1.0 - friction), friction in thousandths.
Damp(a, friction) == TruncDiv(a * (1000 - friction), 1000)

\* grid_v = (1 / grid_m) * grid_v; grid_v += dt * gravity
MomentumToVelocity(m, gv, g) ==
  VecAdd(<<TruncDiv(gv[1], m), TruncDiv(gv[2], m)>>, DtTimesGravity(g))

\* Border conditions with a margin of 2 columns at the left edge.
BoundaryConditionsNarrow(i, j, vel) ==
  LET v1 == IF i < 2 /\ vel[1] < 0 THEN <<0, Damp(vel[2], side_friction)>> ELSE vel
      v2 == IF i > n_grid - 3 /\ v1[1] > 0 THEN <<0, Damp(v1[2], side_friction)>> ELSE v1
      v3 == IF j < 3 /\ v2[2] < 0 THEN <<Damp(v2[1], ground_friction), 0>> ELSE v2
      v4 == IF j > n_grid - 3 /\ v3[2] > 0 THEN <<Damp(v3[1], side_friction), 0>> ELSE v3
  IN v4

\* The four "Boundary conditions at border" of node <<i, j>>, in order.
BoundaryConditions(i, j, vel) ==
  LET v1 == IF i < 3 /\ vel[1] < 0 THEN <<0, Damp(vel[2], side_friction)>> ELSE vel
      v2 == IF i > n_grid - 3 /\ v1[1] > 0 THEN <<0, Damp(v1[2], side_friction)>> ELSE v1
      v3 == IF j < 3 /\ v2[2] < 0 THEN <<Damp(v2[1], ground_friction), 0>> ELSE v2
      v4 == IF j > n_grid - 3 /\ v3[2] > 0 THEN <<Damp(v3[1], side_friction), 0>> ELSE v3
  IN v4

\* "Boundary condition at capsule" of the node at npos with velocity vel.
CapsuleCondition(npos, vel, ctrans, cvel, crot) ==
  IF InsideCapsule(npos, ctrans, crot)
  THEN LET n == WorldNormal(npos, ctrans, crot)
           diff_vel == VecSub(SolidVel(npos, ctrans, cvel), vel)
           nn == Dot(n, n)
           \* n * dotnv of the unit normal: n (n . diff_vel) / (n . n)
           ndot == <<TruncDiv(n[1] * Dot(n, diff_vel), nn),
                     TruncDiv(n[2] * Dot(n, diff_vel), nn)>>
       IN IF Dot(n, diff_vel) > 0
          THEN <<vel[1] + TruncDiv(diff_vel[1] * capsule_friction, 1000)
                        + Damp(ndot[1], capsule_friction),
                 vel[2] + TruncDiv(diff_vel[2] * capsule_friction, 1000)
                        + Damp(ndot[2], capsule_friction)>>
          ELSE vel
  ELSE vel

\* The body of "for i, j in grid_m" for one node: its new grid_v and grid_v0.
GridNode(n, m, gv, gv0, g, ctrans, cvel, crot) ==
  IF m > 0
  THEN [v |-> CapsuleCondition(<<dx * n[1], dx * n[2]>>,
                 BoundaryConditions(n[1], n[2], MomentumToVelocity(m, gv, g)),
                 ctrans, cvel, crot),
        v0 |-> <<TruncDiv(gv0[1], m), TruncDiv(gv0[2], m)>>]
  ELSE [v |-> gv, v0 |-> gv0]

\* The parallel loop over the nodes; no node reads another.
GridUpdate ==
  /\ kpc = "grid"
  /\ grid_v' = [n \in Nodes |->
                  GridNode(n, grid_m[n], grid_v[n], grid_v0[n], gravity,
                           capsule_translation, capsule_trans_vel, capsule_rotation).v]
  /\ grid_v0' = [n \in Nodes |->
                  GridNode(n, grid_m[n], grid_v[n], grid_v0[n], gravity,
                           capsule_translation, capsule_trans_vel, capsule_rotation).v0]
  /\ kpc' = "g2p"
  /\ UNCHANGED <<driverVars, colliderVars, x, v, C, stress, logJ, grid_m, scat, g2p>>

\* Heights the collider's centre takes between Reset and its stop.
CapsuleHeights ==
  {init_capsule_center_y,
   init_capsule_center_y - 3 * n_grid,
   init_capsule_center_y - (capsule_move_frame + 1) * FrameSubsteps}

\* Node velocities tried in the grid phase, and the mass of the node.
ProbeVelocities == {-32, 0, 32} \X {-32, 0, 32}
ProbeMass == 8 * dx * dx

\* One node carries mass and momentum after P2G, the others none.
InitGrid ==
  /\ DriverInFrame(ASFLIP)
  /\ gravity = <<0, -981>>
  /\ capsule_translation \in {init_capsule_center_x} \X CapsuleHeights
  /\ capsule_trans_vel \in {<<0, init_capsule_vel_y>>, <<0, 0>>}
  /\ capsule_rotation \in 0 .. 5
  /\ kpc = "grid"
  /\ x = [p \in Particles |-> <<3 * dx + 10, 3 * dx + 10>>]
  /\ v = [p \in Particles |-> <<0, 0>>]
  /\ C = [p \in Particles |-> <<<<0, 0>>, <<0, 0>>>>]
  /\ stress = [p \in Particles |-> <<<<0, 0>>, <<0, 0>>>>]
  /\ logJ = [p \in Particles |-> 0]
  /\ \E probe \in Nodes, vel \in ProbeVelocities :
       /\ grid_m = [n \in Nodes |-> IF n = probe THEN ProbeMass ELSE 0]
       /\ grid_v = [n \in Nodes |-> IF n = probe THEN VecScale(ProbeMass, vel) ELSE <<0, 0>>]
       /\ grid_v0 = [n \in Nodes |-> IF n = probe THEN VecScale(ProbeMass, vel) ELSE <<0, 0>>]
  /\ scat = [p \in Particles |-> 9]
  /\ g2p = <<>>

NextGrid == GridUpdate

SpecGrid == InitGrid /\ [][NextGrid]_vars

(***************************************************************************)
(* G2P.  Each particle's thread gathers from its 3x3 neighbourhood, then   *)
(* runs the generalized advection.  The thread is cut where the local      *)
(* flip_pos_adj is assigned: after the contact test, after the volume      *)
(* test.  logJ and the volume estimate are in thousandths.                 *)
(***************************************************************************)
\* The sum of the nine terms of a loop over ti.ndrange(3, 3).
Sum9(f) == f[0] + f[1] + f[2] + f[3] + f[4] + f[5] + f[6] + f[7] + f[8]

\* The weights of the gather and of new_C, in units of 1 / (8 dx^2).
GatherWeight(xp, k) == TruncDiv(Weight(xp, k), 8 * dx * dx)

\* new_v (from grid_v) or old_v (from grid_v0): the weighted sum of field
\* over the neighbourhood of xp.
Gather(field, xp) ==
  LET gx(k) == GatherWeight(xp, k) * field[TargetNode(xp, k)][1]
      gy(k) == GatherWeight(xp, k) * field[TargetNode(xp, k)][2]
  IN <<TruncDiv(Sum9([k \in 0 .. 8 |-> gx(k)]), 8 * dx * dx), TruncDiv(Sum9([k \in 0 .. 8 |-> gy(k)]), 8 * dx * dx)>>

\* new_C = sum of 4 * inv_dx * weight * g_v.outer_product(dpos), entry (a, b).
NewCEntry(field, xp, a, b) ==
  LET term(k) == GatherWeight(xp, k) * field[TargetNode(xp, k)][a] * DPos(xp, k)[b]
  IN TruncDiv(4 * Sum9([k \in 0 .. 8 |-> term(k)]), 8 * dx * dx * dx * dx)

NewC(field, xp) ==
  <<<<NewCEntry(field, xp, 1, 1), NewCEntry(field, xp, 1, 2)>>,
    <<NewCEntry(field, xp, 2, 1), NewCEntry(field, xp, 2, 2)>>>>

\* ti.log(max(1e-15, J)) + logdJ, with logdJ = new_C.trace() * dt.
LogVolume(logJp, new_C) == logJp + TruncDiv((new_C[1][1] + new_C[2][2]) * 1000, 16)

\* A contact test that does not look at param_part_col.
ContactGatingAlways(pos_adj_max, part_col, inside, moving_in) ==
  IF pos_adj_max > 0 /\ inside /\ moving_in THEN 0 ELSE pos_adj_max

\* flip_pos_adj after "if flip_pos_adj > 0.0 and param_part_col: ... if phi <
\* 0.0: ... if dotnv > 0.0: flip_pos_adj = 0.0", starting from the maximum.
ContactGating(pos_adj_max, part_col, inside, moving_in) ==
  IF pos_adj_max > 0 /\ part_col /\ inside /\ moving_in THEN 0 ELSE pos_adj_max

\* flip_pos_adj after "if param_flip_pos_adj_min < flip_pos_adj: ... if
\* (log + logdJ < -0.001): flip_pos_adj = param_flip_pos_adj_min".
VolumetricGating(flip_pos_adj, pos_adj_min, logvol) ==
  IF pos_adj_min < flip_pos_adj /\ logvol < -1 THEN pos_adj_min ELSE flip_pos_adj

\* The gather and the branch on param_flip_vel_adj; in the FLIP branch the
\* contact test, in the other the PIC update and C[p] = new_C.
G2PContact(p) ==
  /\ kpc = "g2p"
  /\ g2p[p].pc = "gather"
  /\ LET new_v == Gather(grid_v, x[p])
         new_C == NewC(grid_v, x[p])
     IN IF adv_params[1] > 0
        THEN /\ g2p' = [g2p EXCEPT ![p] =
                  [pc |-> "volume",
                   flip_pos_adj |->
                     ContactGating(adv_params[3], adv_params[6] > 0,
                       InsideCapsule(x[p], capsule_translation, capsule_rotation),
                       MovingIntoCapsule(x[p], v[p], capsule_translation,
                                         capsule_trans_vel, capsule_rotation))]]
             /\ UNCHANGED <<x, v, C>>
        ELSE /\ v' = [v EXCEPT ![p] = new_v]
             /\ x' = [x EXCEPT ![p] = VecAdd(@, DtTimes(new_v))]
             /\ C' = [C EXCEPT ![p] = new_C]
             /\ g2p' = [g2p EXCEPT ![p].pc = "done"]
  /\ UNCHANGED <<driverVars, colliderVars, kpc, stress, logJ,
                 grid_m, grid_v, grid_v0, scat>>

\* The volume test of the FLIP branch.
G2PVolume(p) ==
  /\ kpc = "g2p"
  /\ g2p[p].pc = "volume"
  /\ g2p' = [g2p EXCEPT ![p] =
       [pc |-> "advect",
        flip_pos_adj |-> VolumetricGating(g2p[p].flip_pos_adj, adv_params[2],
                           LogVolume(logJ[p], NewC(grid_v, x[p])))]]
  /\ UNCHANGED <<driverVars, colliderVars, kpc, x, v, C, stress, logJ,
                 grid_m, grid_v, grid_v0, scat>>

\* old_v, diff_vel, the velocity and position update of the FLIP branch, and
\* C[p] = new_C.
G2PAdvect(p) ==
  /\ kpc = "g2p"
  /\ g2p[p].pc = "advect"
  /\ LET new_v == Gather(grid_v, x[p])
         old_v == Gather(grid_v0, x[p])
         diff_vel == VecSub(v[p], old_v)
         vel_part == <<TruncDiv(adv_params[1] * diff_vel[1], 100),
                       TruncDiv(adv_params[1] * diff_vel[2], 100)>>
         pos_part == <<TruncDiv(g2p[p].flip_pos_adj * adv_params[1] * diff_vel[1], 10000),
                       TruncDiv(g2p[p].flip_pos_adj * adv_params[1] * diff_vel[2], 10000)>>
     IN /\ v' = [v EXCEPT ![p] = VecAdd(new_v, vel_part)]
        /\ x' = [x EXCEPT ![p] = VecAdd(@, DtTimes(VecAdd(new_v, pos_part)))]
        /\ C' = [C EXCEPT ![p] = NewC(grid_v, x[p])]
  /\ g2p' = [g2p EXCEPT ![p].pc = "done"]
  /\ UNCHANGED <<driverVars, colliderVars, kpc, stress, logJ,
                 grid_m, grid_v, grid_v0, scat>>

\* The threads of the second "for p in x" run in any interleaving.
G2P == \E p \in Particles : G2PContact(p) \/ G2PVolume(p) \/ G2PAdvect(p)

\* The end of the kernel.
G2PBarrier ==
  /\ kpc = "g2p"
  /\ \A p \in Particles : g2p[p].pc = "done"
  /\ kpc' = "end"
  /\ UNCHANGED <<driverVars, colliderVars, x, v, C, stress, logJ,
                 grid_m, grid_v, grid_v0, scat, g2p>>

\* The collider at its lowest height, lying flat.
LowCapsule ==
  <<init_capsule_center_x,
    init_capsule_center_y - (capsule_move_frame + 1) * FrameSubsteps>>

\* Particles tried in G2P, <<position, velocity>>: under the capsule's
\* segment at rest, there but falling faster than the capsule, and outside.
G2PSamples ==
  {<<VecSub(LowCapsule, <<0, 2 * n_grid>>), <<0, 0>>>>,
   <<VecSub(LowCapsule, <<0, 2 * n_grid>>), <<0, 3 * init_capsule_vel_y>>>>,
   <<<<3 * dx + 10, LowCapsule[2] + 2 * dx>>, <<0, 0>>>>}

\* The grid after the grid update: every node moving down with the capsule.
InitG2P ==
  /\ \E sch \in Schemes : DriverInFrame(sch)
  /\ gravity = <<0, -981>>
  /\ capsule_translation = LowCapsule
  /\ capsule_trans_vel \in {<<0, init_capsule_vel_y>>, <<0, 0>>}
  /\ capsule_rotation = 0
  /\ kpc = "g2p"
  /\ \E smp \in [Particles -> G2PSamples] :
       /\ x = [p \in Particles |-> smp[p][1]]
       /\ v = [p \in Particles |-> smp[p][2]]
  /\ C = [p \in Particles |-> <<<<0, 0>>, <<0, 0>>>>]
  /\ stress = [p \in Particles |-> <<<<0, 0>>, <<0, 0>>>>]
  /\ logJ \in [Particles -> {-2, -1}]
  /\ grid_m = [n \in Nodes |-> ProbeMass]
  /\ grid_v = [n \in Nodes |-> <<0, init_capsule_vel_y>>]
  /\ grid_v0 = [n \in Nodes |-> <<0, init_capsule_vel_y>>]
  /\ scat = [p \in Particles |-> 9]
  /\ g2p = [p \in Particles |-> [pc |-> "gather", flip_pos_adj |-> 0]]

NextG2P ==
  \/ G2P
  \/ G2PBarrier

SpecG2P == InitG2P /\ [][NextG2P]_vars

(***************************************************************************)
(* Properties.                                                             *)
(***************************************************************************)
\* The table of section 4.1 of the specification, in hundredths, "on" as 100.
TableRow(name) ==
  CASE name = PIC -> <<0, 0, 0, 0, 0, 0>>
    [] name = FLIP -> <<99, 0, 0, 0, 0, 0>>
    [] name = NFLIP -> <<97, 100, 100, 0, 0, 0>>
    [] name = SFLIP -> <<99, 0, 100, 0, 0, 100>>
    [] name = APIC -> <<0, 0, 0, 100, 100, 0>>
    [] name = AFLIP -> <<99, 0, 0, 100, 100, 0>>
    [] name = ASFLIP -> <<99, 0, 100, 100, 100, 100>>

\* C1: for each of the 7 presets SetupAdvection(name), called with the globals
\* holding any previously selected preset, leaves exactly the table row of
\* name in the six coefficients and returns name; so the globals always hold
\* the row of the scheme selected last.
C1_PresetTable ==
  /\ \A name \in Schemes :
       /\ SetupAdvection(name, Globals).coef = TableRow(name)
       /\ SetupAdvection(name, Globals).ret = name
  /\ Globals = TableRow(current_advection)

\* C1 witness: LEFT from SFLIP has just called SetupAdvection(NFLIP).
C1_Witness ==
  /\ pc = "frame" /\ event = "left"
  /\ current_advection = NFLIP
  /\ Globals = <<97, 100, 100, 0, 0, 0>>

\* C2: whenever Substep executes, adv_params is exactly the table row of the
\* preset named by current_advection, which is one of the 7 presets.
C2_AdvParamsIsPreset ==
  pc = "substep" =>
    /\ current_advection \in Schemes
    /\ adv_params = TableRow(current_advection)
    /\ Cardinality({name \in Schemes : adv_params = TableRow(name)}) = 1

\* C2 witness: a substep of a later frame runs after the scheme was switched.
C2_Witness ==
  /\ pc = "substep" /\ s = 1 /\ frame >= 1
  /\ current_advection = SFLIP
  /\ adv_params = <<99, 0, 100, 0, 0, 100>>

\* C3: while the for loop of a frame runs, the only steps are its substeps, in
\* order, and then the end of the frame; no step in between changes the
\* advection parameters, the scheme, the paused flag or resets the particles.
\* Commands take effect only where a key is handled, between frames.
C3_NoCommandMidFrame ==
  [][/\ pc = "substep" =>
          /\ adv_params' = adv_params
          /\ current_advection' = current_advection
          /\ paused' = paused
          /\ event' = event
          /\ \/ /\ s < FrameSubsteps
                /\ pc' = "substep" /\ s' = s + 1
                /\ particles' = "stepped"
                /\ capsule_rotation' = capsule_rotation + 1
                /\ frame' = frame
             \/ /\ s = FrameSubsteps
                /\ pc' = "render" /\ frame' = frame + 1
                /\ particles' = particles
                /\ capsule_rotation' = capsule_rotation
     /\ (adv_params' # adv_params \/ paused' # paused \/ capsule_rotation' < capsule_rotation)
          => pc = "handle" /\ pc' = "frame"
    ]_vars

\* C3 witness: a frame is in progress (a substep done, another to go) after
\* the scheme was switched by key presses in earlier iterations.
C3_Witness ==
  /\ pc = "substep" /\ 0 < s /\ s < FrameSubsteps
  /\ current_advection = APIC
  /\ frame >= 1

\* C4 as stated: capsule_move_frame substeps after a Reset (capsule_rotation
\* counts the substeps since the last Reset) with the ASFLIP preset and gravity
\* (0, -9.81), the collider's translation velocity is (0, 0).
C4_Original ==
  (/\ current_advection = ASFLIP
   /\ gravity = <<0, -981>>
   /\ capsule_rotation >= capsule_move_frame)
    => capsule_trans_vel = <<0, 0>>

\* C4 amended: the velocity stays (0, init_capsule_vel_y) while frame <=
\* capsule_move_frame; it is set to (0, 0) exactly at the end of a frame whose
\* incremented counter exceeds capsule_move_frame; only the Reset of the 'r'
\* key makes it nonzero again, and then the collider moves during one frame
\* at most before it is stopped again.
C4_StopsAfterFrames ==
  /\ [](/\ frame <= capsule_move_frame => capsule_trans_vel = <<0, init_capsule_vel_y>>
        /\ capsule_trans_vel \in {<<0, 0>>, <<0, init_capsule_vel_y>>}
        /\ (frame > capsule_move_frame /\ capsule_trans_vel # <<0, 0>>)
             => capsule_rotation = (IF pc = "substep" THEN s ELSE 0))
  /\ [][/\ frame' # frame =>
             /\ frame' = frame + 1
             /\ capsule_trans_vel' = IF frame' > capsule_move_frame THEN <<0, 0>>
                                     ELSE capsule_trans_vel
        /\ (frame' = frame /\ capsule_trans_vel' # capsule_trans_vel) =>
             /\ pc = "handle" /\ event = "r"
             /\ capsule_trans_vel' = <<0, init_capsule_vel_y>>
       ]_vars

\* C4 witness: with no Reset since the start, the collider has just been
\* stopped, at the end of frame capsule_move_frame + 1.
C4_Witness ==
  /\ pc = "render"
  /\ frame = capsule_move_frame + 1
  /\ capsule_rotation = (capsule_move_frame + 1) * FrameSubsteps
  /\ capsule_trans_vel = <<0, 0>>
  /\ current_advection = ASFLIP

\* The sum of a scalar field over a set of nodes.
RECURSIVE SumOver(_, _)
SumOver(field, S) ==
  IF S = {} THEN 0
  ELSE LET n == CHOOSE a \in S : TRUE
       IN field[n] + SumOver(field, S \ {n})

\* Every node of the particle's 3x3 neighbourhood is a node of the grid.
NeighbourhoodInside(xp) == \A k \in 0 .. 8 : TargetNode(xp, k) \in Nodes

\* The nine weights of a particle at xp, summed.
WeightSum(xp) ==
  LET wk(k) == Weight(xp, k)
  IN Sum9([k \in 0 .. 8 |-> wk(k)])

\* The mass of one particle in the unit of the weights: 1 is (8 dx^2)^2.
UnitMass == (8 * dx * dx) * (8 * dx * dx)

\* C5: for particles whose neighbourhoods lie inside the grid, the nine
\* weights sum to exactly 1 at every fractional offset of a cell (in steps of
\* dx/20 on both axes) and for each particle, and after P2G the grid's total
\* mass is n_particles * p_mass.
C5_MassConservation ==
  (\A p \in Particles : NeighbourhoodInside(x[p])) =>
    /\ \A px, py \in 3 * dx .. 4 * dx - 1 : WeightSum(<<px, py>>) = UnitMass
    /\ \A p \in Particles : WeightSum(x[p]) = UnitMass
    /\ kpc = "grid" => SumOver(grid_m, Nodes) = NParticles * UnitMass

\* C5 witness: P2G is over for two particles at different positions, both
\* inside the grid, and the grid carries mass where the leftover had none.
C5_Witness ==
  /\ kpc = "grid"
  /\ x[1] # x[2]
  /\ \A p \in Particles : NeighbourhoodInside(x[p])
  /\ grid_m[<<3, 4>>] > 0

\* What particle p has added to node n in its first cnt iterations.
RECURSIVE DoneM(_, _, _), DoneV(_, _, _), DoneV0(_, _, _)
DoneM(p, n, cnt) ==
  IF cnt = 0 THEN 0
  ELSE DoneM(p, n, cnt - 1)
       + (IF TargetNode(x[p], cnt - 1) = n THEN Weight(x[p], cnt - 1) ELSE 0)
DoneV(p, n, cnt) ==
  IF cnt = 0 THEN <<0, 0>>
  ELSE VecAdd(DoneV(p, n, cnt - 1),
              IF TargetNode(x[p], cnt - 1) = n THEN MomentumTerm(p, cnt - 1) ELSE <<0, 0>>)
DoneV0(p, n, cnt) ==
  IF cnt = 0 THEN <<0, 0>>
  ELSE VecAdd(DoneV0(p, n, cnt - 1),
              IF TargetNode(x[p], cnt - 1) = n THEN MomentumTerm0(p, cnt - 1) ELSE <<0, 0>>)

\* The sums over the particles 1 .. np, particle by particle.
RECURSIVE TotalM(_, _), TotalV(_, _), TotalV0(_, _)
TotalM(n, np) == IF np = 0 THEN 0 ELSE TotalM(n, np - 1) + DoneM(np, n, scat[np])
TotalV(n, np) ==
  IF np = 0 THEN <<0, 0>> ELSE VecAdd(TotalV(n, np - 1), DoneV(np, n, scat[np]))
TotalV0(n, np) ==
  IF np = 0 THEN <<0, 0>> ELSE VecAdd(TotalV0(n, np - 1), DoneV0(np, n, scat[np]))

\* C6: throughout P2G and at its end, in every interleaving of the particles'
\* threads, each node holds exactly the sum of the contributions made so far,
\* taken particle by particle: the order does not matter and none is lost.
C6_OrderIndependent ==
  kpc \in {"p2g", "grid"} =>
    \A n \in Nodes :
      /\ grid_m[n] = TotalM(n, NParticles)
      /\ grid_v[n] = TotalV(n, NParticles)
      /\ grid_v0[n] = TotalV0(n, NParticles)

\* C6 witness: P2G is over and two particles at different positions have
\* written the same node.
C6_Witness ==
  /\ kpc = "grid"
  /\ x[1] # x[2]
  /\ \E k1, k2 \in 0 .. 8 :
       /\ TargetNode(x[1], k1) = TargetNode(x[2], k2)
       /\ Weight(x[1], k1) > 0 /\ Weight(x[2], k2) > 0

\* C7: in the grid update, a node of the columns i < 3 that carries mass and
\* whose x-velocity is negative after the division by the mass and gravity
\* (when the border conditions are applied) has x-velocity 0 at the end of
\* the phase, capsule response included.
C7_LeftBorder ==
  [][(kpc = "grid" /\ kpc' = "g2p") =>
       \A n \in Nodes :
         (/\ n[1] < 3
          /\ grid_m[n] > 0
          /\ MomentumToVelocity(grid_m[n], grid_v[n], gravity)[1] < 0)
           => grid_v'[n][1] = 0
    ]_vars

\* C7 witness: after the grid update a node of column 2 whose momentum was
\* leftward (grid_v0 keeps the undamped velocity) has x-velocity 0.
C7_Witness ==
  /\ kpc = "g2p"
  /\ \E n \in Nodes :
       /\ n[1] = 2
       /\ grid_m[n] > 0
       /\ grid_v0[n][1] < 0
       /\ grid_v[n][1] = 0

\* RIGHT applied cnt times, and LEFT applied cnt times.
RECURSIVE RightTimes(_, _), LeftTimes(_, _)
RightTimes(cnt, cur) == IF cnt = 0 THEN cur ELSE RightScheme(RightTimes(cnt - 1, cur))
LeftTimes(cnt, cur) == IF cnt = 0 THEN cur ELSE LeftScheme(LeftTimes(cnt - 1, cur))

\* C8: the selected scheme is always one of the 7 presets, never COUNT; from
\* it 7 RIGHTs or 7 LEFTs lead back to it, and RIGHT and LEFT undo each other.
C8_Cycling ==
  /\ current_advection \in Schemes
  /\ current_advection # COUNT
  /\ RightTimes(7, current_advection) = current_advection
  /\ LeftTimes(7, current_advection) = current_advection
  /\ LeftScheme(RightScheme(current_advection)) = current_advection
  /\ RightScheme(LeftScheme(current_advection)) = current_advection
  /\ \A cnt \in 1 .. 6 : RightTimes(cnt, current_advection) # current_advection

\* C8 witness: RIGHT has wrapped from ASFLIP to PIC, and LEFT from there
\* would wrap back.
C8_Witness ==
  /\ pc = "frame" /\ event = "right"
  /\ current_advection = PIC
  /\ LeftScheme(current_advection) = ASFLIP

\* C9: in the FLIP branch the contact test leaves flip_pos_adj at the maximum,
\* or at 0 and then only with particle collision enabled and the particle
\* inside the capsule moving into it; the volume test changes it only to the
\* minimum and only when the minimum is strictly below it.  So the value is
\* one of 0, minimum, maximum, never above the maximum, and the volume test
\* never raises it.
C9_PositionAdjustment ==
  /\ [](\A p \in Particles :
          (adv_params[1] > 0 /\ g2p[p].pc \in {"volume", "advect", "done"}) =>
            /\ g2p[p].flip_pos_adj \in {0, adv_params[2], adv_params[3]}
            /\ g2p[p].flip_pos_adj <= adv_params[3])
  /\ [][\A p \in Particles :
          /\ (g2p[p].pc = "gather" /\ g2p'[p].pc = "volume") =>
               /\ g2p'[p].flip_pos_adj \in {0, adv_params[3]}
               /\ g2p'[p].flip_pos_adj # adv_params[3] =>
                    /\ adv_params[6] > 0
                    /\ InsideCapsule(x[p], capsule_translation, capsule_rotation)
                    /\ MovingIntoCapsule(x[p], v[p], capsule_translation,
                                         capsule_trans_vel, capsule_rotation)
          /\ (g2p[p].pc = "volume" /\ g2p'[p].pc = "advect") =>
               /\ g2p'[p].flip_pos_adj <= g2p[p].flip_pos_adj
               /\ g2p'[p].flip_pos_adj # g2p[p].flip_pos_adj =>
                    /\ g2p'[p].flip_pos_adj = adv_params[2]
                    /\ adv_params[2] < g2p[p].flip_pos_adj
       ]_vars

\* C9 witness: under ASFLIP one particle was gated to 0 by the contact test
\* and passed the volume test with the volume condition true, another was
\* lowered from the maximum to the minimum by the volume test.
C9_Witness ==
  /\ kpc = "g2p"
  /\ current_advection = ASFLIP
  /\ g2p[1].pc = "advect" /\ g2p[1].flip_pos_adj = 0 /\ logJ[1] = -2
  /\ InsideCapsule(x[1], capsule_translation, capsule_rotation)
  /\ g2p[2].pc = "advect" /\ g2p[2].flip_pos_adj = adv_params[2]
  /\ ~InsideCapsule(x[2], capsule_translation, capsule_rotation)

\* C10: the Reset of the 'r' key restores the particles, gravity and the
\* collider and leaves frame, paused, the scheme and the advection parameters
\* as they are; no step lowers frame.
C10_ResetFrame ==
  [][/\ (pc = "handle" /\ event = "r") =>
          /\ frame' = frame
          /\ paused' = paused
          /\ current_advection' = current_advection
          /\ adv_params' = adv_params
          /\ Globals' = Globals
          /\ particles' = "reset"
          /\ gravity' = <<0, -981>>
          /\ capsule_translation' = <<init_capsule_center_x, init_capsule_center_y>>
          /\ capsule_trans_vel' = <<0, init_capsule_vel_y>>
          /\ capsule_rotation' = 0
     /\ frame' >= frame
     /\ frame > 0 => frame' > 0
    ]_vars

\* C10 witness: 'r' was handled after frames had run and the collider had
\* moved on; frame is still positive and the collider is back at its start.
C10_Witness ==
  /\ pc = "frame" /\ event = "r"
  /\ frame > capsule_move_frame
  /\ particles = "reset"
  /\ capsule_translation = <<init_capsule_center_x, init_capsule_center_y>>
  /\ capsule_trans_vel = <<0, init_capsule_vel_y>>

=============================================================================
